---- MODULE Spec2Model ----
(***************************************************************************)
(* The chunked LLM-cleaning pass of booker (src/ollama.py): the pre-flight *)
(* check, the sentence chunker, the response filter and the per-chunk      *)
(* retry-and-fallback loop of clean_text_with_ollama; the section parser,  *)
(* the table materializer and the renderer's choice of path                *)
(* (src/pdf_generator.py); the batch loop (src/main.py).                   *)
(*                                                                         *)
(* Text is a sequence of one-character strings, so that len(), strip(),    *)
(* split() and the regular expression of chunk_text are computed character *)
(* by character as Python computes them.                                   *)
(***************************************************************************)
EXTENDS Integers, Sequences, FiniteSets, TLC

VARIABLES
    pc,              \* position of the running function
    ocr_text,        \* the argument of clean_text_with_ollama / chunk_text
    working_model,   \* ollama.py:156
    chunks,          \* ollama.py:166
    i,               \* ollama.py:178, 0-based index of the chunk in hand
    attempt,         \* ollama.py:216, 0-based attempt of the chunk in hand
    success,         \* ollama.py:215
    raw_output,      \* ollama.py:229, of the chunk in hand (empty if none)
    cleaned_chunks,  \* ollama.py:165
    result,          \* the value returned by clean_text_with_ollama
    raised,          \* an exception left clean_text_with_ollama
    posts,           \* history: requests.post calls made for the chunk in hand
    sleeps,          \* history: time.sleep calls made for the chunk in hand
    last_error,      \* ollama.py:265, the exception e in hand ("none" if none)
    hist,            \* history: the outcome of every finished chunk, in order
    chunked,         \* history: chunk_text has been called by the pass
    response,        \* ollama.py:229, data['response'] of the chunk in hand
    tags_response,   \* ollama.py:48, the answer the pre-flight check will get
    payload_model,   \* ollama.py:202, payload["model"] of the chunk in hand
    max_chars,       \* the max_chars argument of chunk_text
    yielded,         \* the chunks yielded by a direct call of chunk_text
    model_output,    \* a completion text given to the response filter
    filtered_once,   \* the response filter applied to model_output
    filtered_twice,  \* the response filter applied to filtered_once
    parse_text,      \* pdf_generator.py:60, the argument text
    parse_lines,     \* pdf_generator.py:65, lines
    line_no,         \* pdf_generator.py:67, the number of lines read so far
    current_section, \* pdf_generator.py:63
    sections,        \* pdf_generator.py:62
    table_content,   \* pdf_generator.py:145, the argument table_content
    table,           \* pdf_generator.py:311, what create_table_from_markdown returned
    input_dir_exists, \* main.py:116, os.path.exists(input_dir)
    listing,         \* main.py:120, os.listdir(input_dir)
    pdf_files,       \* main.py:120
    doc_no,          \* main.py:130, the number of documents gone through
    attempted,       \* history: the documents whose processing was begun
    printed,         \* history: the report printed for every document
    batch_end,       \* history: how process_multiple_pdfs ended
    pdf_success,     \* main.py:49, success of the single-document run
    summary_pdf,     \* main.py:59, whether the name summary_pdf is bound
    file_no,         \* main.py:93, the number of output files gone through
    console,         \* history: what the single-document run printed
    caught           \* main.py:100-105, the exception the run ended with

vars == <<pc, ocr_text, working_model, chunks, i, attempt, success, raw_output,
          cleaned_chunks, result, raised, posts, sleeps, last_error, hist,
          chunked, response, tags_response, payload_model, max_chars, yielded,
          model_output, filtered_once,
          filtered_twice, parse_text, parse_lines, line_no, current_section,
          sections, table_content, table, input_dir_exists, listing,
          pdf_files, doc_no, attempted, printed, batch_end, pdf_success,
          summary_pdf, file_no, console, caught>>

passVars == <<working_model, chunks, i, attempt, success, raw_output,
              cleaned_chunks, result, raised, posts, sleeps, last_error, hist,
              chunked, response, tags_response, payload_model>>

chunkVars == <<max_chars, yielded>>

filterVars == <<model_output, filtered_once, filtered_twice>>

parseVars == <<parse_text, parse_lines, line_no, current_section, sections>>

tableVars == <<table_content, table>>

batchVars == <<input_dir_exists, listing, pdf_files, doc_no, attempted,
               printed, batch_end>>

mainVars == <<pdf_success, summary_pdf, file_no, console, caught>>

\* the variables of the functions other than the cleaning pass and chunk_text
extVars == <<filterVars, parseVars, tableVars, batchVars, mainVars>>

-----------------------------------------------------------------------------
(* Bounds of the model *)

\* longest input text of the cleaning pass
MaxTextLen == 5
\* most fragments of a completion text given to the response filter
MaxFragments == 4
\* most lines of a text given to parse_content_sections
MaxLines == 3
\* most lines of a body given to create_table_from_markdown
MaxTableLines == 3
\* most files of the input directory of a batch
MaxFiles == 3
\* longest input text of the cleaning pass when its termination is checked
MaxLiveTextLen == 4
\* longest input text of a direct chunk_text call
MaxChunkTextLen == 5
\* largest max_chars of a direct chunk_text call
MaxMaxChars == 4

-----------------------------------------------------------------------------
(* Strings *)

\* a string literal as a sequence of its characters
Str(s) == [k \in 1..Len(s) |-> SubSeq(s, k, k)]

Range(f) == {f[k] : k \in DOMAIN f}

\* str.isspace() for the characters of the model
IsSpace(c) == c \in {" ", "\n", "\t"}

\* the character class [.!?] of ollama.py:78
IsTerminator(c) == c \in {".", "!", "?"}

RECURSIVE LStrip(_)
LStrip(s) == IF s # <<>> /\ IsSpace(Head(s)) THEN LStrip(Tail(s)) ELSE s

RECURSIVE RStrip(_)
RStrip(s) ==
    IF s # <<>> /\ IsSpace(s[Len(s)]) THEN RStrip(SubSeq(s, 1, Len(s) - 1)) ELSE s

\* str.strip()
Strip(s) == RStrip(LStrip(s))

\* sep.join(parts)
RECURSIVE Join(_, _)
Join(parts, sep) ==
    IF parts = <<>> THEN <<>>
    ELSE IF Len(parts) = 1 THEN parts[1]
    ELSE parts[1] \o sep \o Join(Tail(parts), sep)

\* ''.join(parts)
Concat(parts) == Join(parts, <<>>)

\* all sequences over S of length at most n
RECURSIVE SeqsUpTo(_, _)
SeqsUpTo(S, n) ==
    IF n = 0 THEN {<<>>}
    ELSE LET shorter == SeqsUpTo(S, n - 1)
         IN  shorter \cup {Append(s, c) : s \in {t \in shorter : Len(t) = n - 1}, c \in S}

-----------------------------------------------------------------------------
(* chunk_text, ollama.py:76-97 *)

\* stands for the default of max_chars, which is 600 in ollama.py:76: the
\* model scales it down to the length of its texts, so that a text of a few
\* characters is cut into several chunks
DefaultMaxChars == 2

\* first position at or after k that holds no whitespace
RECURSIVE WsRunEnd(_, _)
WsRunEnd(text, k) ==
    IF k <= Len(text) /\ IsSpace(text[k]) THEN WsRunEnd(text, k + 1) ELSE k

\* re.split(r'(?<=[.!?])\s+', text): cut at every run of whitespace that
\* directly follows a terminator; the run itself is dropped
RECURSIVE SplitFrom(_, _, _)
SplitFrom(text, k, piece) ==
    IF k > Len(text) THEN <<piece>>
    ELSE IF IsSpace(text[k]) /\ k > 1 /\ IsTerminator(text[k - 1])
         THEN <<piece>> \o SplitFrom(text, WsRunEnd(text, k), <<>>)
         ELSE SplitFrom(text, k + 1, Append(piece, text[k]))

SplitSentences(text) == SplitFrom(text, 1, <<>>)

\* the test of ollama.py:85
Overflows(current_chunk, sentence, max) ==
    Len(current_chunk) + Len(sentence) > max /\ current_chunk # <<>>

\* the buffer that replaces current_chunk when the sentence does not
\* overflow it, ollama.py:90-93
Extended(current_chunk, sentence) ==
    IF current_chunk # <<>> THEN current_chunk \o <<" ">> \o sentence
    ELSE sentence

\* the buffer that replaces current_chunk after it was yielded, ollama.py:88
Restarted(current_chunk, sentence) == sentence

\* the for loop of ollama.py:84-93 from sentence k on, then ollama.py:95-97
RECURSIVE ChunkLoop(_, _, _, _, _)
ChunkLoop(sentences, k, current_chunk, out, max) ==
    IF k > Len(sentences)
    THEN IF current_chunk # <<>> THEN Append(out, Strip(current_chunk)) ELSE out
    ELSE LET sentence == sentences[k]
         IN  IF Overflows(current_chunk, sentence, max)
             THEN ChunkLoop(sentences, k + 1, Restarted(current_chunk, sentence),
                            Append(out, Strip(current_chunk)), max)
             ELSE ChunkLoop(sentences, k + 1, Extended(current_chunk, sentence),
                            out, max)

\* list(chunk_text(text, max))
chunk_text(text, max) == ChunkLoop(SplitSentences(text), 1, <<>>, <<>>, max)

-----------------------------------------------------------------------------
(* check_ollama_connection, ollama.py:44-73 *)

\* ollama.py:41
MODEL == "phi3:3.8b"

\* the Python value None
None == "None"

\* a pass that goes on whatever the check returned
TruthyAlways(x) == TRUE

\* bool(x) of a model name or None, as tested by ollama.py:157
Truthy(x) == x # None /\ x # ""

ModelNames == {MODEL, "llama3:8b"}

\* what may go wrong in ollama.py:48-51: requests.get (ConnectionError,
\* Timeout), raise_for_status (HTTPError), response.json() (JSONDecodeError),
\* model['name'] (KeyError)
TagsFailures == {"ConnectionError", "Timeout", "HTTPError", "JSONDecodeError", "KeyError"}

\* the outcomes of the GET of ollama.py:48: an exception, or the list of the
\* names of the listed models
TagsOutcomes ==
    [kind : TagsFailures, models : {<<>>}]
        \cup [kind : {"ok"}, models : SeqsUpTo(ModelNames, 2)]

\* the answer of the GET once check_ollama_connection has returned
NoTags == [kind |-> "none", models |-> <<>>]

\* a payload that names the preferred model whatever the check selected
PayloadModelPreferred(selected) == MODEL

\* ollama.py:201-202, "model": working_model
PayloadModel(selected) == selected

\* the value returned by check_ollama_connection
check_ollama_connection(tags) ==
    IF tags.kind = "ConnectionError" THEN None            \* ollama.py:68-70
    ELSE IF tags.kind # "ok" THEN None                    \* ollama.py:71-73
    ELSE LET available_models == tags.models
         IN  IF MODEL \notin Range(available_models)
             THEN IF available_models # <<>> THEN available_models[1] ELSE None
             ELSE MODEL

-----------------------------------------------------------------------------
(* the response filter, ollama.py:233-249 *)

UpperCase == Str("ABCDEFGHIJKLMNOPQRSTUVWXYZ")
LowerCase == Str("abcdefghijklmnopqrstuvwxyz")

LowerChar(c) ==
    IF \E k \in 1..Len(UpperCase) : UpperCase[k] = c
    THEN LowerCase[CHOOSE k \in 1..Len(UpperCase) : UpperCase[k] = c]
    ELSE c

\* str.lower()
Lower(s) == [k \in 1..Len(s) |-> LowerChar(s[k])]

\* pattern in line
Contains(line, pattern) ==
    \E k \in 1..(Len(line) - Len(pattern) + 1) :
        SubSeq(line, k, k + Len(pattern) - 1) = pattern

\* line.startswith(c)
StartsWith(line, c) == line # <<>> /\ line[1] = c

\* s.split('\n')
RECURSIVE SplitLinesFrom(_, _, _)
SplitLinesFrom(s, k, line) ==
    IF k > Len(s) THEN <<line>>
    ELSE IF s[k] = "\n" THEN <<line>> \o SplitLinesFrom(s, k + 1, <<>>)
    ELSE SplitLinesFrom(s, k + 1, Append(line, s[k]))

SplitLines(s) == SplitLinesFrom(s, 1, <<>>)

\* ollama.py:239-242
skip_patterns ==
    { Str("here is"), Str("here's"), Str("the text"), Str("corrected"),
      Str("fixed"), Str("output:"), Str("result:"), Str("summary"),
      Str("main points"), Str("appears to be") }

\* a test that looks for the patterns in the line as it is written
KeepsLineCaseSensitive(line) ==
    /\ ~ \E pattern \in skip_patterns : Contains(line, pattern)
    /\ line # <<>>
    /\ ~ StartsWith(line, "*")
    /\ ~ StartsWith(line, "#")

\* ollama.py:244-247 for one stripped line
KeepsLine(line) ==
    /\ ~ \E pattern \in skip_patterns : Contains(Lower(line), pattern)
    /\ line # <<>>
    /\ ~ StartsWith(line, "*")
    /\ ~ StartsWith(line, "#")

RECURSIVE FilterLines(_)
FilterLines(lines) ==
    IF lines = <<>> THEN <<>>
    ELSE LET line == Strip(Head(lines))
         IN  IF KeepsLine(line) THEN <<line>> \o FilterLines(Tail(lines))
             ELSE FilterLines(Tail(lines))

\* the kept lines joined by a space instead of a line break
ResponseFilterJoinSpace(raw) == Join(FilterLines(SplitLines(raw)), <<" ">>)

\* cleaned_text of ollama.py:249, from raw_output of ollama.py:229
ResponseFilter(raw) == Join(FilterLines(SplitLines(raw)), <<"\n">>)

-----------------------------------------------------------------------------
(* the retry-and-fallback loop, ollama.py:215-272 *)

\* a loop of one attempt too many
MaxAttemptsFour == 3 + 1

\* range(3) of ollama.py:216
MaxAttempts == 3

\* a guard that also discards a response of exactly half the chunk's length
TooShortOrHalf(cleaned_text, chunk) ==
    IF Len(chunk) > 0 THEN 2 * Len(cleaned_text) <= Len(chunk) ELSE TRUE

\* ollama.py:255-256: length_ratio < 0.5, where length_ratio is
\* len(cleaned_text) / len(chunk), or 0 for an empty chunk
TooShort(cleaned_text, chunk) ==
    IF Len(chunk) > 0 THEN 2 * Len(cleaned_text) < Len(chunk) ELSE TRUE

\* a pass that keeps the response whatever its length
AcceptedResponseAlways(cleaned_text, chunk) == cleaned_text

\* the text appended by ollama.py:256-260
Accepted(cleaned_text, chunk) ==
    IF TooShort(cleaned_text, chunk) THEN chunk ELSE cleaned_text

\* what may go wrong in ollama.py:220-229: requests.post (ConnectionError,
\* Timeout), raise_for_status (HTTPError), response.json() (JSONDecodeError),
\* data['response'] (KeyError), .strip() of a value that is no string
\* (AttributeError)
AttemptFailures ==
    {"ConnectionError", "Timeout", "HTTPError", "JSONDecodeError", "KeyError",
     "AttributeError"}

\* an attempt without an except clause
CaughtNone(kind) == FALSE

\* a handler that catches requests.exceptions.RequestException only
CaughtTransportOnly(kind) == kind \in {"ConnectionError", "Timeout", "HTTPError"}

\* except Exception of ollama.py:265: every failure above is an Exception
Caught(kind) == kind \in AttemptFailures

\* a wait after every failed attempt
SleepsAfterAlways(a) == TRUE

\* ollama.py:267
SleepsAfter(a) == a < 2

\* ollama.py:263: break leaves the attempt loop
BreaksOnSuccess == TRUE

\* the header of the for loop of ollama.py:216 after the body of attempt a
\* ended without break
LoopHeader(a) ==
    IF a + 1 < MaxAttempts THEN [pc |-> "attempt", attempt |-> a + 1]
    ELSE [pc |-> "after", attempt |-> a]

\* a flag that is set once before the loop over the chunks
InitialSuccessKept(previous) == previous

\* success = False of ollama.py:215
InitialSuccess(previous) == FALSE

\* a fallback that appends nothing
FallbackNothing(ok, accumulator, chunk) == accumulator

\* a fallback that puts the chunk in front
FallbackPrepends(ok, accumulator, chunk) ==
    IF ~ ok THEN <<chunk>> \o accumulator ELSE accumulator

\* cleaned_chunks after ollama.py:270-272
Fallback(ok, accumulator, chunk) ==
    IF ~ ok THEN Append(accumulator, chunk) ELSE accumulator

\* a join with a single newline
FinalTextSingleNewline(accumulator) == Join(accumulator, Str("\n"))

\* ollama.py:276
FinalText(accumulator) == Join(accumulator, Str("\n\n"))

-----------------------------------------------------------------------------
(* the regular expressions of parse_content_sections, pdf_generator.py:71-127 *)
(* A position p of a string s is the index of the character the match would  *)
(* read next, from 1 to Len(s) + 1.                                           *)

IsDigit(c) == c \in {"0", "1", "2", "3", "4", "5", "6", "7", "8", "9"}

\* the pattern $ without re.MULTILINE: the end of the string, or the place
\* before a line break that ends the string
EndOfString(s, p) == p = Len(s) + 1 \/ (p = Len(s) /\ s[p] = "\n")

\* the characters of lit, read at p
LiteralAt(s, p, lit) ==
    /\ p >= 1
    /\ p + Len(lit) - 1 <= Len(s)
    /\ SubSeq(s, p, p + Len(lit) - 1) = lit

\* \d+ read at p: the positions it may stop at
DigitRunEnds(s, p) ==
    { q \in (p + 1)..(Len(s) + 1) : \A k \in p..(q - 1) : IsDigit(s[k]) }

\* (\d+) read at p and taken as far as it goes: the position it stops at
DigitRunEnd(s, p) ==
    CHOOSE q \in DigitRunEnds(s, p) : \A r \in DigitRunEnds(s, p) : r <= q

\* the text of (\d+) read at p
Group(s, p) == SubSeq(s, p, DigitRunEnd(s, p) - 1)

\* .*? read from p to q: any characters but a line break
AnyRun(s, p, q) == \A k \in p..(q - 1) : s[k] # "\n"

\* .*?$ read at p
AnyRunToEnd(s, p) ==
    \E q \in p..(Len(s) + 1) : AnyRun(s, p, q) /\ EndOfString(s, q)

\* Page (\d+) read at p
PageAt(s, p) == LiteralAt(s, p, Str("Page ")) /\ DigitRunEnds(s, p + 5) # {}

\* the first position from p on where Page (\d+) is read after .*?, 0 if none
FirstPage(s, p) ==
    IF \E q \in p..Len(s) : AnyRun(s, p, q) /\ PageAt(s, q)
    THEN CHOOSE q \in p..Len(s) :
             /\ AnyRun(s, p, q) /\ PageAt(s, q)
             /\ \A r \in p..(q - 1) : ~ PageAt(s, r)
    ELSE 0

\* pdf_generator.py:71, re.match(r'$TABLE \d+.*?$', line)
MatchTableStart(line) ==
    /\ EndOfString(line, 1)
    /\ LiteralAt(line, 1, Str("TABLE "))
    /\ \E q \in DigitRunEnds(line, 7) : AnyRunToEnd(line, q)

\* $TABLE (\d+).*?Page (\d+).*?$ read at p
TableInfoAt(line, p) ==
    /\ EndOfString(line, p)
    /\ LiteralAt(line, p, Str("TABLE "))
    /\ DigitRunEnds(line, p + 6) # {}
    /\ FirstPage(line, DigitRunEnd(line, p + 6)) # 0
    /\ AnyRunToEnd(line, DigitRunEnd(line, FirstPage(line, DigitRunEnd(line, p + 6)) + 5))

\* pdf_generator.py:77, re.search(r'$TABLE (\d+).*?Page (\d+).*?$', line):
\* the two groups of the first match, or None
table_match(line) ==
    IF \E p \in 1..(Len(line) + 1) : TableInfoAt(line, p)
    THEN LET p == CHOOSE p \in 1..(Len(line) + 1) :
                      /\ TableInfoAt(line, p)
                      /\ \A r \in 1..(p - 1) : ~ TableInfoAt(line, r)
         IN  [ group1 |-> Group(line, p + 6),
               group2 |-> Group(line, FirstPage(line, DigitRunEnd(line, p + 6)) + 5) ]
    ELSE None

\* pdf_generator.py:90, re.match(r'$/TABLE.*?$', line)
MatchTableEnd(line) ==
    /\ EndOfString(line, 1)
    /\ LiteralAt(line, 1, Str("/TABLE"))
    /\ AnyRunToEnd(line, 7)

\* pdf_generator.py:97, re.match(r'$TEXT - Page (\d+)$', line)
MatchTextStart(line) ==
    /\ EndOfString(line, 1)
    /\ LiteralAt(line, 1, Str("TEXT - Page "))
    /\ \E q \in DigitRunEnds(line, 13) : EndOfString(line, q)

\* pdf_generator.py:112, re.match(r'$OCR - Page (\d+)$', line)
MatchOcrStart(line) ==
    /\ EndOfString(line, 1)
    /\ LiteralAt(line, 1, Str("OCR - Page "))
    /\ \E q \in DigitRunEnds(line, 12) : EndOfString(line, q)

\* pdf_generator.py:101 and 116, re.search(r'Page (\d+)', line): the group of
\* the first match, or None
page_match(line) ==
    IF \E p \in 1..Len(line) : PageAt(line, p)
    THEN LET p == CHOOSE p \in 1..Len(line) :
                      PageAt(line, p) /\ \A r \in 1..(p - 1) : ~ PageAt(line, r)
         IN  [ group1 |-> Group(line, p + 5) ]
    ELSE None

\* pdf_generator.py:127, re.match(r'$/(TEXT|OCR)$', line)
MatchSectionEnd(line) ==
    /\ EndOfString(line, 1)
    /\ \/ LiteralAt(line, 1, Str("/TEXT")) /\ EndOfString(line, 6)
       \/ LiteralAt(line, 1, Str("/OCR")) /\ EndOfString(line, 5)

-----------------------------------------------------------------------------
(* parse_content_sections, pdf_generator.py:60-142 *)

\* the page of a section that has none, pdf_generator.py:63
NoPage == <<None>>

\* pdf_generator.py:78-79, 102, 117
Unknown == Str("Unknown")

\* pdf_generator.py:63, 93, 130
EmptyTextSection == [type |-> "text", content |-> <<>>, page |-> NoPage]

\* a test that lets every section pass
HasContentAlways(section) == TRUE

\* pdf_generator.py:73, 98, 113, 128, 139: current_section['content'].strip()
HasContent(section) == Strip(section.content) # <<>>

\* pdf_generator.py:73-74, 98-99, 113-114, 139-140
Flushed(secs, section) ==
    IF HasContent(section) THEN Append(secs, section) ELSE secs

\* content that takes the line without the line break after it
AddContentNoNewline(content, line) == content \o line

\* pdf_generator.py:136
AddContent(content, line) == content \o line \o <<"\n">>

\* pdf_generator.py:68-136, one turn of the loop: the sections and the
\* current section after the line was read
ParseLine(secs, section, raw_line) ==
    LET line == Strip(raw_line)
    IN  IF MatchTableStart(line)
        THEN [ sections |-> Flushed(secs, section),
               current_section |->
                   [ type |-> "table",
                     content |-> <<>>,
                     table_num |-> IF table_match(line) # None
                                   THEN table_match(line).group1 ELSE Unknown,
                     page |-> IF table_match(line) # None
                              THEN table_match(line).group2 ELSE Unknown ] ]
        ELSE IF MatchTableEnd(line)
        THEN IF section.type = "table"
             THEN [ sections |-> Append(secs, section),
                    current_section |-> EmptyTextSection ]
             ELSE [ sections |-> secs, current_section |-> section ]
        ELSE IF MatchTextStart(line)
        THEN [ sections |-> Flushed(secs, section),
               current_section |->
                   [ type |-> "text",
                     content |-> <<>>,
                     page |-> IF page_match(line) # None
                              THEN page_match(line).group1 ELSE Unknown ] ]
        ELSE IF MatchOcrStart(line)
        THEN [ sections |-> Flushed(secs, section),
               current_section |->
                   [ type |-> "ocr",
                     content |-> <<>>,
                     page |-> IF page_match(line) # None
                              THEN page_match(line).group1 ELSE Unknown ] ]
        ELSE IF MatchSectionEnd(line)
        THEN IF HasContent(section)
             THEN [ sections |-> Append(secs, section),
                    current_section |-> EmptyTextSection ]
             ELSE [ sections |-> secs, current_section |-> section ]
        ELSE IF line # <<>>
        THEN [ sections |-> secs,
               current_section |->
                   [section EXCEPT !.content = AddContent(@, line)] ]
        ELSE [ sections |-> secs, current_section |-> section ]

-----------------------------------------------------------------------------
(* create_table_from_markdown, pdf_generator.py:145-198 *)

\* line.split('|')
RECURSIVE SplitCellsFrom(_, _, _)
SplitCellsFrom(line, k, cell) ==
    IF k > Len(line) THEN <<cell>>
    ELSE IF line[k] = "|" THEN <<cell>> \o SplitCellsFrom(line, k + 1, <<>>)
    ELSE SplitCellsFrom(line, k + 1, Append(cell, line[k]))

SplitCells(line) == SplitCellsFrom(line, 1, <<>>)

\* pdf_generator.py:147: the lines that are not blank, stripped
RECURSIVE NonBlankLines(_)
NonBlankLines(ls) ==
    IF ls = <<>> THEN <<>>
    ELSE IF Strip(Head(ls)) # <<>>
         THEN <<Strip(Head(ls))>> \o NonBlankLines(Tail(ls))
         ELSE NonBlankLines(Tail(ls))

\* a test that takes no line for a separator
IsSeparatorNever(line) == FALSE

\* pdf_generator.py:152, re.match(r'^[\|\-\+\s]+$', line) of a stripped line
IsSeparator(line) ==
    /\ line # <<>>
    /\ \A k \in 1..Len(line) : line[k] \in {"|", "-", "+"} \/ IsSpace(line[k])

\* pdf_generator.py:150-153
RECURSIVE DataLines(_)
DataLines(ls) ==
    IF ls = <<>> THEN <<>>
    ELSE IF ~ IsSeparator(Head(ls))
         THEN <<Head(ls)>> \o DataLines(Tail(ls))
         ELSE DataLines(Tail(ls))

\* pdf_generator.py:162: [cell.strip() for cell in line.split('|')]
RECURSIVE StripCells(_)
StripCells(cells) ==
    IF cells = <<>> THEN <<>>
    ELSE <<Strip(Head(cells))>> \o StripCells(Tail(cells))

\* pdf_generator.py:164-165
DropFirstEmpty(cells) ==
    IF cells # <<>> /\ cells[1] = <<>> THEN Tail(cells) ELSE cells

\* pdf_generator.py:166-167
DropLastEmpty(cells) ==
    IF cells # <<>> /\ cells[Len(cells)] = <<>>
    THEN SubSeq(cells, 1, Len(cells) - 1) ELSE cells

\* pdf_generator.py:162-167
Cells(line) == DropLastEmpty(DropFirstEmpty(StripCells(SplitCells(line))))

\* pdf_generator.py:159-170
RECURSIVE TableData(_)
TableData(data_lines) ==
    IF data_lines = <<>> THEN <<>>
    ELSE IF Cells(Head(data_lines)) # <<>>
         THEN <<Cells(Head(data_lines))>> \o TableData(Tail(data_lines))
         ELSE TableData(Tail(data_lines))

\* the None of pdf_generator.py:156 and 173: no table; a Table has a row
NoTable == <<>>

\* pdf_generator.py:145-198: the rows of the Table returned, or NoTable
create_table_from_markdown(content) ==
    LET data_lines == DataLines(NonBlankLines(SplitLines(content)))
    IN  IF data_lines = <<>> THEN NoTable
        ELSE IF TableData(data_lines) = <<>> THEN NoTable
        ELSE TableData(data_lines)

\* pdf_generator.py:312-321: the raw-text fallback is taken for the table
TakesFallback(t) == t = NoTable

-----------------------------------------------------------------------------
(* process_multiple_pdfs, main.py:112-158, and the result of text_to_pdf,  *)
(* pdf_generator.py:201-363                                                *)

\* s.endswith(suffix)
EndsWith(s, suffix) ==
    /\ Len(s) >= Len(suffix)
    /\ SubSeq(s, Len(s) - Len(suffix) + 1, Len(s)) = suffix

\* main.py:120, the test of the list comprehension
IsPdf(f) == EndsWith(Lower(f), Str(".pdf"))

\* main.py:120
RECURSIVE PdfFilesOf(_)
PdfFilesOf(names) ==
    IF names = <<>> THEN <<>>
    ELSE IF IsPdf(Head(names)) THEN <<Head(names)>> \o PdfFilesOf(Tail(names))
    ELSE PdfFilesOf(Tail(names))

\* what may happen in text_to_pdf: the story is built and doc.build
\* succeeds; doc.build or os.path.getsize raises inside the try of
\* pdf_generator.py:350-358; a statement of pdf_generator.py:201-346,
\* outside the try, raises
PdfEvents == {"built", "build_error", "story_error"}

\* pdf_generator.py:348-363: what text_to_pdf returns, or that it raises
text_to_pdf(event) ==
    IF event = "story_error" THEN [raises |-> TRUE, value |-> "none"]
    ELSE IF event = "build_error" THEN [raises |-> FALSE, value |-> "False"]
    ELSE [raises |-> FALSE, value |-> "True"]

\* what may happen to one document in main.py:134-151: pdf_to_text raises,
\* the cleaned text cannot be written, or text_to_pdf is reached
DocEvents == {"ocr_error", "write_error"} \cup PdfEvents

\* main.py:133-156: an exception reaches the except clause of the document
DocumentRaises(event) ==
    \/ event \in {"ocr_error", "write_error"}
    \/ event \in PdfEvents /\ text_to_pdf(event).raises

\* main.py:151-156: the report printed for the document
BatchReport(event) ==
    IF DocumentRaises(event) THEN "failed" ELSE "completed"

\* a loop that an error of a document ends
NextDocumentStopsOnError(n, event, total) ==
    IF DocumentRaises(event) THEN total ELSE n + 1

\* main.py:130, 155-156: the loop goes on to the next document
NextDocument(n, event, total) == n + 1

-----------------------------------------------------------------------------
(* the single-document run, main.py:10-109 *)

\* a name of the module that no statement has assigned yet
Unbound == "unbound"

\* the value of an expression that reads the name: NameError if no statement
\* has assigned it
ReadRaises(binding) == binding = Unbound

\* what may happen in main.py:15-40: the text is extracted, cleaned and
\* saved, or one of the steps raises
ExtractEvents == {"saved", "FileNotFoundError", "Exception"}

\* what may happen in create_summary_pdf, pdf_generator.py:366-421, which
\* has no try around doc.build
SummaryEvents == {"built", "Exception"}

\* main.py:86-91: the descriptions of the output files, in order
OutputFiles == <<"Raw OCR Text", "Cleaned Text", "Main PDF", "Summary PDF">>

-----------------------------------------------------------------------------
(* The inputs *)

PassAlphabet == {"a", ".", " "}
Texts == SeqsUpTo(PassAlphabet, MaxTextLen)

ChunkAlphabet == {"a", ".", " ", "\n"}
ChunkTexts == SeqsUpTo(ChunkAlphabet, MaxChunkTextLen)

\* the completion texts the generate endpoint may return
RawResponses == { Str(""), Str("a"), Str("Fixed:\naa"), Str(" a. a\n") }

\* the pieces the completion texts given to the response filter are made of
Fragments == { Str("a"), Str(" "), Str("\n"), Str("*"), Str("#"), Str("Here"),
               Str("is"), Str("Fixed:") }

ModelOutputs == { Concat(parts) : parts \in SeqsUpTo(Fragments, MaxFragments) }

\* the lines the texts given to parse_content_sections are made of: blank
\* lines, content lines, the texts of the six patterns, with $ and with
\* square brackets around them, and open lines without a page number
ParseLineSet ==
    { Str(""), Str("a"), Str(" b "),
      Str("$TEXT - Page 1$"), Str("$/TEXT$"),
      Str("$OCR - Page 2$"), Str("$/OCR$"),
      Str("$TABLE 1 - Page 2$"), Str("$/TABLE$"),
      Str("[TEXT - Page 1]"), Str("[/TEXT]"),
      Str("$TABLE 1$"), Str("$TEXT - Page x$") }

ParseTexts == { Join(ls, <<"\n">>) : ls \in SeqsUpTo(ParseLineSet, MaxLines) }

\* the lines the bodies given to create_table_from_markdown are made of
TableLineSet ==
    { Str(""), Str("a"), Str("|a|b|"), Str("|-|-|"), Str("| c | d |"),
      Str("a|b"), Str("||a|"), Str("+-+"), Str("x||y"), Str(" - ") }

TableBodies ==
    { Join(ls, <<"\n">>) : ls \in SeqsUpTo(TableLineSet, MaxTableLines) }

\* create_table_from_markdown is not in use
IdleTable ==
    /\ table_content = <<>>
    /\ table = NoTable

\* the file names of the input directory
FileNames == { Str("a.pdf"), Str("B.PDF"), Str("c.txt"), Str("d.pdf") }

\* what os.listdir may return: names that differ from each other
Listings ==
    { l \in SeqsUpTo(FileNames, MaxFiles) :
        \A m, n \in 1..Len(l) : m # n => l[m] # l[n] }

\* the single-document run is not in use
IdleMain ==
    /\ pdf_success = "unset"
    /\ summary_pdf = Unbound
    /\ file_no = 0
    /\ console = <<>>
    /\ caught = "none"

\* process_multiple_pdfs is not in use
IdleBatch ==
    /\ input_dir_exists = FALSE
    /\ listing = <<>>
    /\ pdf_files = <<>>
    /\ doc_no = 0
    /\ attempted = <<>>
    /\ printed = <<>>
    /\ batch_end = "none"

\* parse_content_sections is not in use
IdleParse ==
    /\ parse_text = <<>>
    /\ parse_lines = <<>>
    /\ line_no = 0
    /\ current_section = EmptyTextSection
    /\ sections = <<>>

-----------------------------------------------------------------------------
(* clean_text_with_ollama, ollama.py:155-287 *)

\* the chunk in hand
chunk == chunks[i + 1]

\* the response filter is not in use
IdleFilter ==
    /\ model_output = <<>>
    /\ filtered_once = <<>>
    /\ filtered_twice = <<>>

Init ==
    /\ pc = "start"
    /\ ocr_text \in Texts
    /\ working_model = None
    /\ chunks = <<>>
    /\ i = 0
    /\ attempt = 0
    /\ success = FALSE
    /\ raw_output = <<>>
    /\ cleaned_chunks = <<>>
    /\ result = <<>>
    /\ raised = FALSE
    /\ posts = 0
    /\ sleeps = 0
    /\ last_error = "none"
    /\ hist = <<>>
    /\ chunked = FALSE
    /\ response = <<>>
    /\ tags_response \in TagsOutcomes
    /\ payload_model = None
    /\ max_chars = DefaultMaxChars
    /\ yielded = <<>>
    /\ IdleFilter
    /\ IdleParse
    /\ IdleTable
    /\ IdleBatch
    /\ IdleMain

\* ollama.py:156
CheckConnection ==
    /\ pc = "start"
    /\ working_model' = check_ollama_connection(tags_response)
    /\ tags_response' = NoTags
    /\ pc' = "checked"
    /\ UNCHANGED <<ocr_text, chunks, i, attempt, success, raw_output,
                   cleaned_chunks, result, raised, posts, sleeps, last_error, hist, chunked,
                   max_chars, yielded>>
    /\ UNCHANGED response
    /\ UNCHANGED extVars
    /\ UNCHANGED payload_model

\* ollama.py:157-159
SkipCleaning ==
    /\ pc = "checked"
    /\ ~ Truthy(working_model)
    /\ result' = ocr_text
    /\ pc' = "done"
    /\ UNCHANGED <<ocr_text, working_model, chunks, i, attempt, success,
                   raw_output, cleaned_chunks, raised, posts, sleeps, last_error, hist,
                   chunked, max_chars, yielded>>
    /\ UNCHANGED response
    /\ UNCHANGED extVars
    /\ UNCHANGED <<tags_response, payload_model>>

\* ollama.py:165-166
StartCleaning ==
    /\ pc = "checked"
    /\ Truthy(working_model)
    /\ cleaned_chunks' = <<>>
    /\ chunks' = chunk_text(ocr_text, DefaultMaxChars)
    /\ chunked' = TRUE
    /\ i' = 0
    /\ pc' = "loop"
    /\ UNCHANGED <<ocr_text, working_model, attempt, success, raw_output,
                   result, raised, posts, sleeps, last_error, hist, max_chars, yielded>>
    /\ UNCHANGED response
    /\ UNCHANGED extVars
    /\ UNCHANGED <<tags_response, payload_model>>

\* ollama.py:178-215: the next chunk is taken and its request is built
BeginChunk ==
    /\ pc = "loop"
    /\ i < Len(chunks)
    /\ success' = InitialSuccess(success)
    /\ attempt' = 0
    /\ payload_model' = PayloadModel(working_model)
    /\ raw_output' = <<>>
    /\ response' = <<>>
    /\ posts' = 0
    /\ sleeps' = 0
    /\ last_error' = "none"
    /\ pc' = "attempt"
    /\ UNCHANGED <<ocr_text, working_model, chunks, i, cleaned_chunks, result,
                   raised, hist, chunked, max_chars, yielded>>
    /\ UNCHANGED extVars
    /\ UNCHANGED tags_response

\* ollama.py:220-263: the request is answered with a completion text
AttemptResponse ==
    /\ pc = "attempt"
    /\ \E data_response \in RawResponses :
          LET raw == Strip(data_response)
              cleaned_text == ResponseFilter(raw)
          IN  /\ response' = data_response
              /\ raw_output' = raw
              /\ cleaned_chunks' = Append(cleaned_chunks, Accepted(cleaned_text, chunk))
              /\ hist' = Append(hist, IF TooShort(cleaned_text, chunk)
                                      THEN "rejected_short" ELSE "accepted")
    /\ posts' = posts + 1
    /\ success' = TRUE
    /\ last_error' = last_error
    /\ IF BreaksOnSuccess
       THEN pc' = "after" /\ attempt' = attempt
       ELSE pc' = LoopHeader(attempt).pc /\ attempt' = LoopHeader(attempt).attempt
    /\ UNCHANGED <<ocr_text, working_model, chunks, i, result, raised, sleeps,
                   chunked, max_chars, yielded>>
    /\ UNCHANGED extVars
    /\ UNCHANGED <<tags_response, payload_model>>

\* ollama.py:220-229, 265-268: the request fails
AttemptFailure ==
    /\ pc = "attempt"
    /\ posts' = posts + 1
    /\ \E kind \in AttemptFailures :
          /\ last_error' = kind
          /\ IF Caught(kind)
             THEN /\ raised' = raised
                  /\ IF SleepsAfter(attempt)
                     THEN pc' = "sleep" /\ attempt' = attempt
                     ELSE pc' = LoopHeader(attempt).pc
                          /\ attempt' = LoopHeader(attempt).attempt
             ELSE /\ raised' = TRUE
                  /\ pc' = "raised"
                  /\ attempt' = attempt
    /\ UNCHANGED <<ocr_text, working_model, chunks, i, success, raw_output,
                   cleaned_chunks, result, sleeps, hist, chunked, max_chars,
                   yielded>>
    /\ UNCHANGED response
    /\ UNCHANGED extVars
    /\ UNCHANGED <<tags_response, payload_model>>

\* ollama.py:268, then the next turn of the loop of ollama.py:216
Backoff ==
    /\ pc = "sleep"
    /\ sleeps' = sleeps + 1
    /\ last_error' = "none"
    /\ pc' = LoopHeader(attempt).pc
    /\ attempt' = LoopHeader(attempt).attempt
    /\ UNCHANGED <<ocr_text, working_model, chunks, i, success, raw_output,
                   cleaned_chunks, result, raised, posts, hist, chunked,
                   max_chars, yielded>>
    /\ UNCHANGED response
    /\ UNCHANGED extVars
    /\ UNCHANGED <<tags_response, payload_model>>

\* ollama.py:270-274
EndChunk ==
    /\ pc = "after"
    /\ cleaned_chunks' = Fallback(success, cleaned_chunks, chunk)
    /\ hist' = IF ~ success THEN Append(hist, "exhausted") ELSE hist
    /\ i' = i + 1
    /\ last_error' = "none"
    /\ pc' = "loop"
    /\ UNCHANGED <<ocr_text, working_model, chunks, attempt, success,
                   raw_output, result, raised, posts, sleeps, chunked,
                   max_chars, yielded>>
    /\ UNCHANGED response
    /\ UNCHANGED extVars
    /\ UNCHANGED <<tags_response, payload_model>>

\* ollama.py:276-287
Finish ==
    /\ pc = "loop"
    /\ i >= Len(chunks)
    /\ result' = FinalText(cleaned_chunks)
    /\ pc' = "done"
    /\ UNCHANGED <<ocr_text, working_model, chunks, i, attempt, success,
                   raw_output, cleaned_chunks, raised, posts, sleeps, last_error, hist,
                   chunked, max_chars, yielded>>
    /\ UNCHANGED response
    /\ UNCHANGED extVars
    /\ UNCHANGED <<tags_response, payload_model>>

Next ==
    \/ CheckConnection
    \/ SkipCleaning
    \/ StartCleaning
    \/ BeginChunk
    \/ AttemptResponse
    \/ AttemptFailure
    \/ Backoff
    \/ EndChunk
    \/ Finish

Spec == Init /\ [][Next]_vars

\* the pass as it runs: a sequential program none of whose steps blocks,
\* requests.get and requests.post having a timeout (ollama.py:48, 220-225)
\* and time.sleep(2) returning, so that a step that can be taken is taken
InitLive == Init /\ Len(ocr_text) <= MaxLiveTextLen

SpecLive == InitLive /\ [][Next]_vars /\ WF_vars(Next)

-----------------------------------------------------------------------------
(* a direct call of chunk_text(text, max_chars), ollama.py:76-97 *)

InitChunk ==
    /\ pc = "chunk_text"
    /\ ocr_text \in ChunkTexts
    /\ max_chars \in 1..MaxMaxChars
    /\ yielded = <<>>
    /\ working_model = None
    /\ chunks = <<>>
    /\ i = 0
    /\ attempt = 0
    /\ success = FALSE
    /\ raw_output = <<>>
    /\ cleaned_chunks = <<>>
    /\ result = <<>>
    /\ raised = FALSE
    /\ posts = 0
    /\ sleeps = 0
    /\ last_error = "none"
    /\ hist = <<>>
    /\ chunked = FALSE
    /\ response = <<>>
    /\ tags_response = NoTags
    /\ payload_model = None
    /\ IdleFilter
    /\ IdleParse
    /\ IdleTable
    /\ IdleBatch
    /\ IdleMain

CallChunkText ==
    /\ pc = "chunk_text"
    /\ yielded' = chunk_text(ocr_text, max_chars)
    /\ pc' = "chunk_done"
    /\ UNCHANGED <<ocr_text, max_chars>>
    /\ UNCHANGED passVars
    /\ UNCHANGED extVars

NextChunk == CallChunkText

SpecChunk == InitChunk /\ [][NextChunk]_vars

-----------------------------------------------------------------------------
(* the response filter of ollama.py:229-249 applied to a completion text, *)
(* and then to its own result                                             *)

\* the cleaning pass and chunk_text are not in use
IdlePass ==
    /\ ocr_text = <<>>
    /\ working_model = None
    /\ chunks = <<>>
    /\ i = 0
    /\ attempt = 0
    /\ success = FALSE
    /\ raw_output = <<>>
    /\ cleaned_chunks = <<>>
    /\ result = <<>>
    /\ raised = FALSE
    /\ posts = 0
    /\ sleeps = 0
    /\ last_error = "none"
    /\ hist = <<>>
    /\ chunked = FALSE
    /\ response = <<>>
    /\ tags_response = NoTags
    /\ payload_model = None
    /\ max_chars = DefaultMaxChars
    /\ yielded = <<>>

InitFilter ==
    /\ pc = "filter"
    /\ model_output \in ModelOutputs
    /\ filtered_once = <<>>
    /\ filtered_twice = <<>>
    /\ IdlePass
    /\ IdleParse
    /\ IdleTable
    /\ IdleBatch
    /\ IdleMain

\* ollama.py:229-249 on data['response']
FilterOnce ==
    /\ pc = "filter"
    /\ filtered_once' = ResponseFilter(Strip(model_output))
    /\ pc' = "filtered_once"
    /\ UNCHANGED <<model_output, filtered_twice, ocr_text>>
    /\ UNCHANGED <<passVars, chunkVars, parseVars, tableVars, batchVars, mainVars>>

\* ollama.py:229-249 on the text it returned
FilterTwice ==
    /\ pc = "filtered_once"
    /\ filtered_twice' = ResponseFilter(Strip(filtered_once))
    /\ pc' = "filtered_twice"
    /\ UNCHANGED <<model_output, filtered_once, ocr_text>>
    /\ UNCHANGED <<passVars, chunkVars, parseVars, tableVars, batchVars, mainVars>>

NextFilter ==
    \/ FilterOnce
    \/ FilterTwice

SpecFilter == InitFilter /\ [][NextFilter]_vars

-----------------------------------------------------------------------------
(* parse_content_sections(text), pdf_generator.py:60-142, line by line *)

\* pdf_generator.py:62-65
InitParse ==
    /\ pc = "parse"
    /\ parse_text \in ParseTexts
    /\ parse_lines = SplitLines(parse_text)
    /\ line_no = 0
    /\ current_section = EmptyTextSection
    /\ sections = <<>>
    /\ IdlePass
    /\ IdleFilter
    /\ IdleTable
    /\ IdleBatch
    /\ IdleMain

\* pdf_generator.py:67-136, one turn of the loop
ReadLine ==
    /\ pc = "parse"
    /\ line_no < Len(parse_lines)
    /\ LET after == ParseLine(sections, current_section, parse_lines[line_no + 1])
       IN  /\ sections' = after.sections
           /\ current_section' = after.current_section
    /\ line_no' = line_no + 1
    /\ UNCHANGED <<pc, parse_text, parse_lines, ocr_text>>
    /\ UNCHANGED <<passVars, chunkVars, filterVars, tableVars, batchVars, mainVars>>

\* pdf_generator.py:138-142
ReturnSections ==
    /\ pc = "parse"
    /\ line_no = Len(parse_lines)
    /\ sections' = Flushed(sections, current_section)
    /\ pc' = "parse_done"
    /\ UNCHANGED <<parse_text, parse_lines, line_no, current_section, ocr_text>>
    /\ UNCHANGED <<passVars, chunkVars, filterVars, tableVars, batchVars, mainVars>>

NextParse ==
    \/ ReadLine
    \/ ReturnSections

SpecParse == InitParse /\ [][NextParse]_vars

-----------------------------------------------------------------------------
(* a call of create_table_from_markdown(table_content), *)
(* pdf_generator.py:145-198                              *)

InitTable ==
    /\ pc = "table"
    /\ table_content \in TableBodies
    /\ table = NoTable
    /\ IdlePass
    /\ IdleFilter
    /\ IdleParse
    /\ IdleBatch
    /\ IdleMain

CreateTable ==
    /\ pc = "table"
    /\ table' = create_table_from_markdown(table_content)
    /\ pc' = "table_done"
    /\ UNCHANGED <<table_content, ocr_text>>
    /\ UNCHANGED <<passVars, chunkVars, filterVars, parseVars, batchVars, mainVars>>

NextTable == CreateTable

SpecTable == InitTable /\ [][NextTable]_vars

-----------------------------------------------------------------------------
(* process_multiple_pdfs(input_dir, output_dir), main.py:112-158 *)

InitBatch ==
    /\ pc = "batch"
    /\ input_dir_exists \in BOOLEAN
    /\ listing \in (IF input_dir_exists THEN Listings ELSE {<<>>})
    /\ pdf_files = <<>>
    /\ doc_no = 0
    /\ attempted = <<>>
    /\ printed = <<>>
    /\ batch_end = "none"
    /\ IdlePass
    /\ IdleFilter
    /\ IdleParse
    /\ IdleTable
    /\ IdleMain

\* main.py:114-128
ListFiles ==
    /\ pc = "batch"
    /\ IF ~ input_dir_exists
       THEN /\ batch_end' = "no_input_dir"
            /\ pdf_files' = pdf_files
            /\ pc' = "batch_done"
       ELSE /\ pdf_files' = PdfFilesOf(listing)
            /\ IF PdfFilesOf(listing) = <<>>
               THEN batch_end' = "no_pdf_files" /\ pc' = "batch_done"
               ELSE batch_end' = batch_end /\ pc' = "batch_loop"
    /\ UNCHANGED <<input_dir_exists, listing, doc_no, attempted, printed, ocr_text>>
    /\ UNCHANGED <<passVars, chunkVars, filterVars, parseVars, tableVars, mainVars>>

\* main.py:130-156, one turn of the loop
ProcessDocument ==
    /\ pc = "batch_loop"
    /\ doc_no < Len(pdf_files)
    /\ attempted' = Append(attempted, pdf_files[doc_no + 1])
    /\ \E event \in DocEvents :
          /\ printed' = Append(printed, [ file |-> pdf_files[doc_no + 1],
                                          event |-> event,
                                          report |-> BatchReport(event) ])
          /\ doc_no' = NextDocument(doc_no, event, Len(pdf_files))
    /\ UNCHANGED <<pc, input_dir_exists, listing, pdf_files, batch_end, ocr_text>>
    /\ UNCHANGED <<passVars, chunkVars, filterVars, parseVars, tableVars, mainVars>>

\* main.py:158
CompleteBatch ==
    /\ pc = "batch_loop"
    /\ doc_no >= Len(pdf_files)
    /\ batch_end' = "complete"
    /\ pc' = "batch_done"
    /\ UNCHANGED <<input_dir_exists, listing, pdf_files, doc_no, attempted,
                   printed, ocr_text>>
    /\ UNCHANGED <<passVars, chunkVars, filterVars, parseVars, tableVars, mainVars>>

NextBatch ==
    \/ ListFiles
    \/ ProcessDocument
    \/ CompleteBatch

SpecBatch == InitBatch /\ [][NextBatch]_vars

-----------------------------------------------------------------------------
(* the single-document run, main.py:10-109 *)

InitMain ==
    /\ pc = "main"
    /\ pdf_success = "unset"
    /\ summary_pdf = Unbound
    /\ file_no = 0
    /\ console = <<>>
    /\ caught = "none"
    /\ IdlePass
    /\ IdleFilter
    /\ IdleParse
    /\ IdleTable
    /\ IdleBatch

\* main.py:11-40, and the handlers of main.py:102-109
MainExtractAndClean ==
    /\ pc = "main"
    /\ \E event \in ExtractEvents :
          IF event = "saved"
          THEN /\ console' = Append(console, "Cleaned text saved")
               /\ caught' = caught
               /\ pc' = "main_pdf"
          ELSE /\ console' = Append(console, "Error")
               /\ caught' = event
               /\ pc' = "main_done"
    /\ UNCHANGED <<pdf_success, summary_pdf, file_no, ocr_text>>
    /\ UNCHANGED <<passVars, chunkVars, filterVars, parseVars, tableVars, batchVars>>

\* main.py:43-67, and the handler of main.py:105-109
MainGeneratePdf ==
    /\ pc = "main_pdf"
    /\ \E event \in PdfEvents, summary_event \in SummaryEvents :
          IF text_to_pdf(event).raises
          THEN /\ pdf_success' = pdf_success
               /\ summary_pdf' = summary_pdf
               /\ console' = Append(console, "Error")
               /\ caught' = "Exception"
               /\ pc' = "main_done"
          ELSE IF text_to_pdf(event).value = "True"
          THEN /\ pdf_success' = "True"
               /\ summary_pdf' = "bound"
               /\ IF summary_event = "built"
                  THEN /\ console' = console \o <<"Main PDF created", "Summary PDF created">>
                       /\ caught' = caught
                       /\ pc' = "main_stats"
                  ELSE /\ console' = console \o <<"Main PDF created", "Error">>
                       /\ caught' = "Exception"
                       /\ pc' = "main_done"
          ELSE /\ pdf_success' = "False"
               /\ summary_pdf' = summary_pdf
               /\ console' = Append(console, "PDF generation failed")
               /\ caught' = caught
               /\ pc' = "main_stats"
    /\ UNCHANGED <<file_no, ocr_text>>
    /\ UNCHANGED <<passVars, chunkVars, filterVars, parseVars, tableVars, batchVars>>

\* main.py:69-82
MainStatistics ==
    /\ pc = "main_stats"
    /\ \E exists \in BOOLEAN :
          console' = IF pdf_success = "True" /\ exists
                     THEN console \o <<"Final Statistics", "Generated PDF">>
                     ELSE Append(console, "Final Statistics")
    /\ pc' = "main_list"
    /\ UNCHANGED <<pdf_success, summary_pdf, file_no, caught, ocr_text>>
    /\ UNCHANGED <<passVars, chunkVars, filterVars, parseVars, tableVars, batchVars>>

\* main.py:84-91, and the handler of main.py:105-109
MainOutputFiles ==
    /\ pc = "main_list"
    /\ IF ReadRaises(summary_pdf)
       THEN /\ console' = console \o <<"Output Files Created", "Error">>
            /\ caught' = "NameError"
            /\ pc' = "main_done"
       ELSE /\ console' = Append(console, "Output Files Created")
            /\ caught' = caught
            /\ pc' = "main_files"
    /\ file_no' = 0
    /\ UNCHANGED <<pdf_success, summary_pdf, ocr_text>>
    /\ UNCHANGED <<passVars, chunkVars, filterVars, parseVars, tableVars, batchVars>>

\* main.py:93-96, one turn of the loop
MainListFile ==
    /\ pc = "main_files"
    /\ file_no < Len(OutputFiles)
    /\ \E exists \in BOOLEAN :
          console' = IF exists THEN Append(console, OutputFiles[file_no + 1])
                     ELSE console
    /\ file_no' = file_no + 1
    /\ UNCHANGED <<pc, pdf_success, summary_pdf, caught, ocr_text>>
    /\ UNCHANGED <<passVars, chunkVars, filterVars, parseVars, tableVars, batchVars>>

\* main.py:98
MainComplete ==
    /\ pc = "main_files"
    /\ file_no >= Len(OutputFiles)
    /\ console' = Append(console, "Complete")
    /\ pc' = "main_done"
    /\ UNCHANGED <<pdf_success, summary_pdf, file_no, caught, ocr_text>>
    /\ UNCHANGED <<passVars, chunkVars, filterVars, parseVars, tableVars, batchVars>>

NextMain ==
    \/ MainExtractAndClean
    \/ MainGeneratePdf
    \/ MainStatistics
    \/ MainOutputFiles
    \/ MainListFile
    \/ MainComplete

SpecMain == InitMain /\ [][NextMain]_vars

-----------------------------------------------------------------------------
(* Properties of the cleaning pass *)

\* the filtered texts of the completions the endpoint may return
FilteredResponses == {ResponseFilter(Strip(r)) : r \in RawResponses}

\* the chunks of the input joined with a double newline
Rejoined == Join(chunk_text(ocr_text, DefaultMaxChars), Str("\n\n"))

\* C1: when the pre-flight check fails (it returns None), the pass never
\* calls chunk_text, never posts a request, accepts no text, and returns
\* the input text unchanged.
C1_PreflightFailureSkips ==
    (pc # "start" /\ working_model = None) =>
        /\ pc \in {"checked", "done"}
        /\ ~ chunked
        /\ chunks = <<>>
        /\ posts = 0
        /\ hist = <<>>
        /\ cleaned_chunks = <<>>
        /\ (pc = "done" => result = ocr_text)

\* the pass returned after a failed check, for a text that chunking and
\* rejoining would have changed
C1_Witness ==
    /\ pc = "done"
    /\ working_model = None
    /\ result = ocr_text
    /\ Rejoined # ocr_text

\* C2: when an attempt (the 1st, 2nd or 3rd) returns a response whose
\* filtered text is shorter than half the chunk, the original chunk is the
\* text accepted for the chunk, and no further attempt is made for it.
C2_ShortResponseKeepsOriginal ==
    /\ (pc = "after" /\ success /\ 2 * Len(ResponseFilter(raw_output)) < Len(chunk)) =>
          /\ Len(cleaned_chunks) = i + 1
          /\ cleaned_chunks[i + 1] = chunk
          /\ hist[i + 1] = "rejected_short"
          /\ posts = attempt + 1
    /\ (pc \in {"attempt", "sleep"}) => ~ success
    /\ \A k \in 1..Len(hist) :
          hist[k] = "rejected_short" =>
              (k <= Len(cleaned_chunks) /\ cleaned_chunks[k] = chunks[k])

\* the 3rd attempt returned a response that is not empty after filtering,
\* yet shorter than half the chunk
C2_Witness ==
    /\ pc = "after"
    /\ success
    /\ attempt = 2
    /\ ResponseFilter(raw_output) # <<>>
    /\ 2 * Len(ResponseFilter(raw_output)) < Len(chunk)
    /\ cleaned_chunks[i + 1] = chunk

\* C3: when all 3 attempts of a chunk fail, the text accepted for the chunk
\* is exactly the original chunk text.
C3_ExhaustedKeepsOriginal ==
    /\ (pc \in {"loop", "done"} /\ i >= 1 /\ ~ success /\ posts = 3) =>
          /\ Len(cleaned_chunks) = i
          /\ cleaned_chunks[i] = chunks[i]
    /\ \A k \in 1..Len(hist) :
          hist[k] = "exhausted" =>
              (k <= Len(cleaned_chunks) /\ cleaned_chunks[k] = chunks[k])

\* a chunk was finished after 3 failed attempts
C3_Witness ==
    /\ pc = "loop"
    /\ i >= 1
    /\ ~ success
    /\ posts = 3
    /\ hist[i] = "exhausted"
    /\ cleaned_chunks[i] = chunks[i]

\* C4: every chunk gets at least 1 and at most 3 requests; an attempt is
\* made only when all the attempts before it failed and fewer than 3 were
\* made, and never after a response was returned.
C4_OneToThreeRequests ==
    /\ posts <= 3
    /\ pc = "attempt" => (~ success /\ posts = attempt /\ posts < 3)
    /\ pc = "sleep" => (~ success /\ posts = attempt + 1 /\ posts < 3)
    /\ pc = "after" => (posts >= 1 /\ (~ success => posts = 3))
    /\ (pc \in {"loop", "done"} /\ i >= 1) => posts >= 1

\* a response was returned to the 3rd request of a chunk
C4_Witness ==
    /\ pc = "after"
    /\ success
    /\ posts = 3

\* C5 as stated: whenever every generate request failed, the returned text
\* is the chunks of the input joined with a double newline.
C5_Original ==
    (pc = "done" /\ \A k \in 1..Len(hist) : hist[k] = "exhausted") =>
        result = Rejoined

\* C5, amended: when the pre-flight check passed and every generate request
\* failed, the returned text is the chunks of the input joined with a
\* double newline.
C5_FallbackRejoins ==
    (/\ pc = "done"
     /\ working_model # None
     /\ \A k \in 1..Len(hist) : hist[k] = "exhausted") =>
        result = Rejoined

\* the pass ended with two chunks that both used up their attempts, on a
\* text that differs from its rejoined chunks
C5_Witness ==
    /\ pc = "done"
    /\ working_model # None
    /\ Len(hist) = 2
    /\ \A k \in 1..Len(hist) : hist[k] = "exhausted"
    /\ result # ocr_text

\* C6: chunks are handled in index order, one accepted text is appended per
\* chunk, entry k is the text accepted for chunk k, and the returned text
\* is the entries joined with a double newline.
C6_OneEntryPerChunkInOrder ==
    chunked =>
        /\ i <= Len(chunks)
        /\ Len(cleaned_chunks) = i + (IF pc = "after" /\ success THEN 1 ELSE 0)
        /\ Len(hist) = Len(cleaned_chunks)
        /\ \A k \in 1..Len(cleaned_chunks) :
              IF hist[k] = "accepted"
              THEN /\ cleaned_chunks[k] \in FilteredResponses
                   /\ 2 * Len(cleaned_chunks[k]) >= Len(chunks[k])
              ELSE cleaned_chunks[k] = chunks[k]
        /\ pc = "done" =>
              /\ Len(cleaned_chunks) = Len(chunks)
              /\ result = Join(cleaned_chunks, Str("\n\n"))

\* the pass ended with a response accepted for the first chunk and the
\* original text kept for the second
C6_Witness ==
    /\ pc = "done"
    /\ Len(chunks) = 2
    /\ hist = <<"accepted", "exhausted">>
    /\ cleaned_chunks[1] # chunks[1]
    /\ cleaned_chunks[2] # cleaned_chunks[1]

\* C7: whatever the outcome of the chunk before it, a chunk is processed,
\* starts at its first attempt with no attempt used, and the text accepted
\* for it is decided by its own text and its own response alone.
C7_ChunksIndependent ==
    /\ pc = "attempt" => (~ success /\ attempt = posts /\ attempt < 3)
    /\ (pc = "after" /\ success) =>
          cleaned_chunks[i + 1] =
              (IF 2 * Len(ResponseFilter(raw_output)) < Len(chunk) \/ Len(chunk) = 0
               THEN chunk ELSE ResponseFilter(raw_output))
    /\ (pc = "loop" /\ i >= 1 /\ ~ success) =>
          (Len(cleaned_chunks) = i /\ cleaned_chunks[i] = chunks[i])
    /\ (pc = "loop" /\ i < Len(chunks)) => ENABLED BeginChunk
    /\ (pc = "done" /\ chunked) => Len(hist) = Len(chunks)

\* the chunk after one that used up its attempts got its response at its
\* first attempt
C7_Witness ==
    /\ pc = "after"
    /\ i = 1
    /\ hist[1] = "exhausted"
    /\ success
    /\ posts = 1
    /\ hist[2] = "accepted"

\* C8: no failure of an attempt leaves the pass: no exception is raised,
\* and the pass ends with a text accepted for every chunk.
C8_NoFailureEscapes ==
    /\ ~ raised
    /\ pc # "raised"
    /\ (pc = "done" /\ chunked) =>
          /\ Len(cleaned_chunks) = Len(chunks)
          /\ result = Join(cleaned_chunks, Str("\n\n"))
    /\ (pc \in {"sleep", "after"} /\ last_error # "none" /\ ~ success) =>
          last_error \in AttemptFailures

\* the 3rd attempt of a chunk failed on a response without the completion
\* field, and the pass went on
C8_Witness ==
    /\ pc = "after"
    /\ ~ success
    /\ posts = 3
    /\ last_error = "KeyError"
    /\ ~ raised

-----------------------------------------------------------------------------
(* Properties of chunk_text *)

\* C9: every chunk is at most max_chars long, except a chunk made of one
\* single sentence that is longer than max_chars.
C9_ChunkBound ==
    pc = "chunk_done" =>
        \A k \in 1..Len(yielded) :
            \/ Len(yielded[k]) <= max_chars
            \/ \E n \in 1..Len(SplitSentences(ocr_text)) :
                  /\ Len(SplitSentences(ocr_text)[n]) > max_chars
                  /\ yielded[k] = Strip(SplitSentences(ocr_text)[n])

\* s without the whitespace that directly follows a terminator, which is
\* where chunk_text joins sentences and chunks
RECURSIVE WithoutJoinsFrom(_, _)
WithoutJoinsFrom(s, k) ==
    IF k > Len(s) THEN <<>>
    ELSE IF IsSpace(s[k]) /\ k > 1 /\ IsTerminator(s[k - 1])
         THEN WithoutJoinsFrom(s, WsRunEnd(s, k))
         ELSE <<s[k]>> \o WithoutJoinsFrom(s, k + 1)

WithoutJoins(s) == WithoutJoinsFrom(s, 1)

\* C10: the chunks concatenated in order reproduce the input text, the
\* whitespace at the joins of sentences and chunks being ignored.
C10_ChunksReproduceInput ==
    pc = "chunk_done" =>
        WithoutJoins(Concat(yielded)) = WithoutJoins(ocr_text)

-----------------------------------------------------------------------------
(* Properties of the response filter *)

\* C11: the response filter is idempotent: applied to its own result it
\* returns that result unchanged.
C11_FilterIdempotent ==
    pc = "filtered_twice" => filtered_twice = filtered_once

\* the filter dropped a line and kept another, and the second application
\* returned the kept text
C11_Witness ==
    /\ pc = "filtered_twice"
    /\ filtered_once # <<>>
    /\ Len(FilterLines(SplitLines(Strip(model_output))))
          < Len(SplitLines(Strip(model_output)))
    /\ filtered_twice = filtered_once

-----------------------------------------------------------------------------
(* Properties of an accepted response *)

\* the lines of s, each without its surrounding whitespace
RECURSIVE StripEach(_)
StripEach(lines) ==
    IF lines = <<>> THEN <<>>
    ELSE <<Strip(Head(lines))>> \o StripEach(Tail(lines))

\* s without the whitespace around it and around each of its lines
Trimmed(s) == Join(StripEach(SplitLines(Strip(s))), <<"\n">>)

\* the response in hand loses no line to the filter
NoLineDropped ==
    /\ \A k \in 1..Len(SplitLines(Strip(response))) :
          LET line == Strip(SplitLines(Strip(response))[k])
          IN  /\ line # <<>>
              /\ line[1] \notin {"*", "#"}
              /\ \A pattern \in skip_patterns : ~ Contains(Lower(line), pattern)

\* the filtered length of the response in hand is at least half the chunk's
AtLeastHalf == 2 * Len(Trimmed(response)) >= Len(chunk)

\* C12 as stated: when an attempt returns a response none of whose lines is
\* dropped by the filter and whose filtered length is at least half the
\* chunk's length, the text accepted for the chunk is that response verbatim.
C12_Original ==
    (pc = "after" /\ success /\ NoLineDropped /\ AtLeastHalf) =>
        /\ Len(cleaned_chunks) = i + 1
        /\ cleaned_chunks[i + 1] = response

\* C12: when an attempt returns a response none of whose lines is dropped by
\* the filter and whose filtered length is at least half the chunk's length
\* (exactly half included), the text accepted for a chunk that is not empty
\* is the response without the whitespace around it and around each of its
\* lines; for an empty chunk it is the (empty) chunk.
C12_AcceptedIsTrimmedResponse ==
    (pc = "after" /\ success /\ NoLineDropped /\ AtLeastHalf) =>
        /\ Len(cleaned_chunks) = i + 1
        /\ Len(chunk) > 0 => cleaned_chunks[i + 1] = Trimmed(response)
        /\ Len(chunk) = 0 => cleaned_chunks[i + 1] = chunk

\* a response of exactly half the chunk's length was accepted in place of
\* the chunk
C12_Witness ==
    /\ pc = "after"
    /\ success
    /\ NoLineDropped
    /\ Len(chunk) > 0
    /\ 2 * Len(Trimmed(response)) = Len(chunk)
    /\ cleaned_chunks[i + 1] = Trimmed(response)
    /\ cleaned_chunks[i + 1] # chunk

-----------------------------------------------------------------------------
(* Properties of parse_content_sections *)

\* the lines of the inputs that open a text section of page 1
TextStartLines == { Str("$TEXT - Page 1$"), Str("[TEXT - Page 1]") }

\* the lines of the inputs that close a text or ocr section
SectionEndLines == { Str("$/TEXT$"), Str("$/OCR$"), Str("[/TEXT]") }

\* the lines of the inputs that open or close a section
DelimiterLines ==
    TextStartLines \cup SectionEndLines
        \cup { Str("$OCR - Page 2$"), Str("$TABLE 1 - Page 2$"), Str("$/TABLE$"),
               Str("$TABLE 1$"), Str("$TEXT - Page x$") }

\* the lines of the inputs that are content: not blank and no delimiter
ContentLines ==
    { l \in ParseLineSet : Strip(l) # <<>> /\ l \notin DelimiterLines }

\* C13: for a text-section-open line carrying page number p, then one
\* content line, then a section-close line, parse_content_sections returns
\* exactly one section, of type text, with page p and the content line as
\* its content.
C13_TextSectionParsed ==
    ( /\ pc = "parse_done"
      /\ Len(parse_lines) = 3
      /\ parse_lines[1] \in TextStartLines
      /\ parse_lines[2] \in ContentLines
      /\ parse_lines[3] \in SectionEndLines ) =>
        /\ Len(sections) = 1
        /\ sections[1].type = "text"
        /\ sections[1].page = Str("1")
        /\ Strip(sections[1].content) = Strip(parse_lines[2])

\* C14: every section in the list of parse_content_sections, of any type,
\* has content that is not empty and not only whitespace.
C14_NoBlankSection ==
    \A k \in 1..Len(sections) :
        \E n \in 1..Len(sections[k].content) :
            ~ IsSpace(sections[k].content[n])

\* a text with a blank line and other lines was read to its end and one
\* section was returned for it
C14_Witness ==
    /\ pc = "parse_done"
    /\ Len(parse_lines) = 3
    /\ \E k \in 1..3 : Strip(parse_lines[k]) = <<>>
    /\ \E k \in 1..3 : Strip(parse_lines[k]) # <<>>
    /\ Len(sections) = 1

\* C19 as stated: after a text or ocr section-close line was read, the
\* current section is an empty text section with no page number, whether or
\* not the section open before it had content, so that a content line after
\* the close never joins the section open before the close.
C19_CloseResetsSection ==
    ( /\ pc = "parse"
      /\ line_no >= 1
      /\ parse_lines[line_no] \in SectionEndLines ) =>
        current_section = EmptyTextSection

\* a line the parser takes for a delimiter
IsDelimiter(line) ==
    \/ MatchTableStart(line)
    \/ MatchTableEnd(line)
    \/ MatchTextStart(line)
    \/ MatchOcrStart(line)
    \/ MatchSectionEnd(line)

\* the content lines of the first k input lines, each stripped and followed
\* by a line break, in input order
RECURSIVE ContentUpTo(_)
ContentUpTo(k) ==
    IF k = 0 THEN <<>>
    ELSE LET line == Strip(parse_lines[k])
         IN  IF line # <<>> /\ ~ IsDelimiter(line)
             THEN ContentUpTo(k - 1) \o line \o <<"\n">>
             ELSE ContentUpTo(k - 1)

\* the contents of the sections, one after the other
RECURSIVE AllContent(_)
AllContent(secs) ==
    IF secs = <<>> THEN <<>>
    ELSE secs[1].content \o AllContent(Tail(secs))

\* C20: every non-empty line that is not a delimiter line is in the content
\* of exactly one returned section, exactly once, followed by a line break,
\* in input order: the contents of the returned sections, one after the
\* other, are the content lines of the input, one after the other.
C20_ContentPreserved ==
    /\ pc = "parse_done" => AllContent(sections) = ContentUpTo(Len(parse_lines))
    /\ pc = "parse" =>
          AllContent(sections) \o current_section.content = ContentUpTo(line_no)

\* a text of two content lines, one of them with whitespace around it, and
\* a blank line between them was parsed
C20_Witness ==
    /\ pc = "parse_done"
    /\ parse_lines = <<Str(" b "), Str(""), Str("a")>>
    /\ AllContent(sections) = Str("b\na\n")

-----------------------------------------------------------------------------
(* Properties of create_table_from_markdown *)

\* a trimmed line that is not empty and does not consist solely of pipe,
\* dash, plus and whitespace characters
IsRowLine(l) ==
    \E n \in 1..Len(l) : l[n] \notin {"|", "-", "+", " ", "\t", "\n"}

\* the cells of a trimmed line: split on the pipe, trimmed, without one
\* leading and one trailing empty cell
RowOf(l) ==
    LET cs == StripEach(SplitCells(l))
        first == IF cs[1] = <<>> THEN 2 ELSE 1
        last == IF cs[Len(cs)] = <<>> THEN Len(cs) - 1 ELSE Len(cs)
    IN  SubSeq(cs, first, last)

\* the rows of a table body
RowsOf(content) ==
    LET ls == SelectSeq(StripEach(SplitLines(content)), IsRowLine)
    IN  [k \in 1..Len(ls) |-> RowOf(ls[k])]

\* the body of a header line, a separator line and a data line
ThreeLineBody == Str("|a|b|\n|-|-|\n| c | d |")

\* C15: the rows create_table_from_markdown builds are exactly the non-empty
\* trimmed lines that do not consist solely of pipe, dash, plus and
\* whitespace characters, in order, each split on the pipe into trimmed
\* cells with one leading and one trailing empty cell removed; a header
\* line, a separator line and a data line give exactly two rows.
C15_RowsOfBody ==
    pc = "table_done" =>
        /\ table = RowsOf(table_content)
        /\ table_content = ThreeLineBody =>
              table = << <<Str("a"), Str("b")>>, <<Str("c"), Str("d")>> >>

\* the rows of the header, separator and data lines were built
C15_Witness ==
    /\ pc = "table_done"
    /\ table_content = ThreeLineBody
    /\ Len(table) = 2

\* a line of the body has a pipe in it
HasPipeLine(content) ==
    \E k \in 1..Len(SplitLines(content)) :
        \E n \in 1..Len(SplitLines(content)[k]) : SplitLines(content)[k][n] = "|"

\* C16 as stated: a table body with no pipe-delimited line produces zero
\* rows (no table), and the raw-text fallback is taken for the section.
C16_NoPipeNoTable ==
    ( /\ pc = "table_done"
      /\ Strip(table_content) # <<>>
      /\ ~ HasPipeLine(table_content) ) =>
        /\ table = NoTable
        /\ TakesFallback(table)

-----------------------------------------------------------------------------
(* Properties of the batch *)

\* C17 as stated: when the PDF build fails for a document, the error is
\* caught inside text_to_pdf, which returns a failure result and does not
\* raise, and in batch mode the document is never reported as completed.
C17_BuildFailureNotCompleted ==
    /\ ~ text_to_pdf("build_error").raises
    /\ text_to_pdf("build_error").value = "False"
    /\ \A k \in 1..Len(printed) :
          printed[k].event = "build_error" => printed[k].report # "completed"

\* the names of the inputs that are PDF files
PdfNames == { Str("a.pdf"), Str("B.PDF"), Str("d.pdf") }

IsPdfName(f) == f \in PdfNames

-----------------------------------------------------------------------------
(* Properties of parse_content_sections: missing close, unparsable numbers *)

\* the lines of the inputs that open a section
SectionStartLines ==
    TextStartLines \cup { Str("$OCR - Page 2$"), Str("$TABLE 1 - Page 2$") }

\* C21 as stated: when a section-open line is read while another section is
\* open, the open section is flushed with the content lines read since its
\* own open line, if it has any, and the new section starts empty: content
\* from the two sides of the open line is never merged into one section.
C21_OpenFlushesOpenSection ==
    ( /\ pc = "parse"
      /\ line_no >= 1
      /\ parse_lines[line_no] \in SectionStartLines ) =>
        /\ current_section.content = <<>>
        /\ \A k \in 1..Len(sections) :
              \A n \in 1..Len(parse_lines) :
                  parse_lines[n] \in SectionStartLines =>
                      ~ Contains(sections[k].content, parse_lines[n])

\* C22 as stated: when an open line carries a table or page number that
\* cannot be parsed, a section of the line's type is still started, with
\* "Unknown" for the number that could not be parsed and with any number
\* that could.
C22_UnknownForUnparsedNumber ==
    ( /\ pc = "parse"
      /\ line_no >= 1 ) =>
        /\ parse_lines[line_no] = Str("$TABLE 1$") =>
              /\ current_section.type = "table"
              /\ current_section.content = <<>>
              /\ current_section.table_num = Str("1")
              /\ current_section.page = Unknown
        /\ parse_lines[line_no] = Str("$TEXT - Page x$") =>
              /\ current_section.type = "text"
              /\ current_section.content = <<>>
              /\ current_section.page = Unknown

-----------------------------------------------------------------------------
(* Properties of the response filter: what is kept *)

\* the lines of a text joined with line breaks; the empty text has none
LinesOf(s) == IF s = <<>> THEN <<>> ELSE SplitLines(s)

\* a trimmed line that is not empty, holds no deny-listed marker in any
\* case, and does not start with * or #
HasNoDefect(l) ==
    /\ l # <<>>
    /\ l[1] \notin {"*", "#"}
    /\ \A pattern \in skip_patterns :
          \A k \in 1..Len(l) :
              k + Len(pattern) - 1 <= Len(l) =>
                  Lower(SubSeq(l, k, k + Len(pattern) - 1)) # pattern

\* C23: the lines of the filter's result are, in the same relative order,
\* the trimmed lines of the input that are not empty, contain no
\* deny-listed marker in any case and do not start with * or #: none with
\* such a defect is in the result and every one without is kept.
C23_FilterKeepsGoodLines ==
    pc \in {"filtered_once", "filtered_twice"} =>
        LinesOf(filtered_once)
            = SelectSeq(StripEach(SplitLines(model_output)), HasNoDefect)

\* a capitalised marker line was dropped and the line after it kept
C23_Witness ==
    /\ pc = "filtered_once"
    /\ model_output = Str("Fixed:\na")
    /\ filtered_once = Str("a")

-----------------------------------------------------------------------------
(* Properties of the model selection *)

\* the preferred model when the answer lists it, otherwise the first model
\* listed, and no model when the list is empty or the GET failed
SelectedBy(answer) ==
    IF answer.kind = "ok" /\ \E k \in 1..Len(answer.models) : answer.models[k] = MODEL
    THEN MODEL
    ELSE IF answer.kind = "ok" /\ Len(answer.models) > 0
    THEN answer.models[1]
    ELSE None

-----------------------------------------------------------------------------
(* Properties of chunk_text: empty chunks *)

\* C25 as stated: chunk_text never yields an empty chunk: for any input,
\* the empty text and a text made only of whitespace included, every
\* yielded chunk has at least one character.
C25_NoEmptyChunk ==
    pc = "chunk_done" => \A k \in 1..Len(yielded) : Len(yielded[k]) >= 1

-----------------------------------------------------------------------------
(* Properties of the backoff *)

\* C26: within one chunk every 2nd or 3rd attempt is preceded by exactly one
\* backoff wait, which follows the failure of the attempt before it; no wait
\* happens after a successful attempt or after the 3rd failed attempt: a
\* chunk has at most 2 waits and the fallback after exhaustion is taken
\* without waiting.
C26_BackoffBetweenAttempts ==
    /\ sleeps <= 2
    /\ pc = "attempt" => (sleeps = attempt /\ posts = attempt)
    /\ pc = "sleep" =>
          /\ last_error # "none"
          /\ attempt < 2
          /\ posts = attempt + 1
          /\ sleeps = attempt
    /\ (pc = "after" /\ success) => sleeps = posts - 1
    /\ (pc = "after" /\ ~ success) => (posts = 3 /\ sleeps = 2)

\* the three attempts of a chunk failed, with a wait after the 1st and the
\* 2nd and none after the 3rd
C26_Witness ==
    /\ pc = "after"
    /\ ~ success
    /\ posts = 3
    /\ sleeps = 2

-----------------------------------------------------------------------------
(* Termination of the cleaning pass *)

\* the outcomes of a chunk
ChunkOutcomes == {"accepted", "rejected_short", "exhausted"}

\* C27: once the pre-flight check has passed, the pass terminates for any
\* input and any pattern of endpoint successes and failures: it reaches the
\* final join after at most 3 generate requests per chunk, and every chunk
\* has ended in exactly one of the outcomes accepted, rejected-too-short or
\* exhausted-fallback.
C27_PassTerminates ==
    (pc = "checked" /\ working_model # None /\ posts <= 3)
        ~> ( /\ pc = "done"
             /\ chunked
             /\ posts <= 3
             /\ Len(hist) = Len(chunks)
             /\ Len(cleaned_chunks) = Len(chunks)
             /\ \A k \in 1..Len(hist) : hist[k] \in ChunkOutcomes )

\* the pass ended after two chunks, one of them exhausted and the other
\* accepted
C27_Witness ==
    /\ pc = "done"
    /\ chunked
    /\ Len(chunks) = 2
    /\ \E k \in 1..2 : hist[k] = "exhausted"
    /\ \E k \in 1..2 : hist[k] = "accepted"

-----------------------------------------------------------------------------
(* Properties of the single-document run *)

\* C28 as stated: when text_to_pdf returns false in the single-document
\* run, the summary PDF is not created and the run still goes through the
\* final statistics and the listing of the output files to its completion
\* message, without any error being raised.
C28_FailedPdfRunCompletes ==
    (pc = "main_done" /\ pdf_success = "False") =>
        /\ caught = "none"
        /\ \A k \in 1..Len(console) : console[k] # "Summary PDF created"
        /\ \E k \in 1..Len(console) : console[k] = "Final Statistics"
        /\ console[Len(console)] = "Complete"

====
